---- MODULE Spec2Model ----
(***************************************************************************)
(* Request / error / middleware contract of the backend skeleton:          *)
(* error taxonomy, response envelope builders, validation gate, rate-limit *)
(* gate, global error handler, not-found step and the health probe, as     *)
(* composed by createApp.                                                  *)
(*                                                                         *)
(* Optional JavaScript arguments and properties are sequences of length    *)
(* at most one: << >> is `undefined`, <<v>> is the value v.  Objects are   *)
(* functions from their own keys to values, so an omitted key is a key     *)
(* that is not in the DOMAIN.                                              *)
(***************************************************************************)
EXTENDS Integers, Sequences, FiniteSets, TLC

VARIABLES
    NODE_ENV,     \* process.env.NODE_ENV when the configuration module is loaded
    maxRequests,  \* config.rateLimit.maxRequests
    call,         \* the invocation under way: operation name and its arguments
    out,          \* what the invocation produced: responses written, next() calls
    lastLog,      \* the last entry handed to the logger
    hits,         \* rate-limit store: hits of each client in its current window
    served,       \* what the rate limiter passed to next for each hit of the window
    prisma,       \* database.ts `prisma`: TRUE once a client has been assigned
    dbUp,         \* the database server answers queries
    request,      \* the request being handled by the application
    pc,           \* the middleware that handles it next
    raised,       \* the error passed to next(err), if any
    written,      \* the responses written for it
    trace,        \* the steps that have run for it
    ping,         \* outcome of the health probe's database query for it
    inflight      \* the requests the rate limiter is handling concurrently

appVars == <<hits, served, prisma, dbUp, request, pc, raised, written, trace, ping>>
vars == <<NODE_ENV, maxRequests, call, out, lastLog, appVars, inflight>>

None == << >>
Some(v) == <<v>>
Opt(S) == {None} \cup {Some(v) : v \in S}
Arg(opt, default) == IF opt = None THEN default ELSE opt[1]

(***************************************************************************)
(* Configuration                                                           *)
(***************************************************************************)
NodeEnvValues == Opt({"", "development", "production", "test", "staging"})

\* a || b on strings: the empty string and undefined are falsy
OrDefault(opt, default) == IF opt = None \/ opt = Some("") THEN default ELSE opt[1]

config_isProduction(nodeEnv) == nodeEnv = Some("production")

config(nodeEnv) ==
    [ env           |-> OrDefault(nodeEnv, "development"),
      isDevelopment |-> nodeEnv = Some("development"),
      isProduction  |-> config_isProduction(nodeEnv),
      isTest        |-> nodeEnv = Some("test") ]

(***************************************************************************)
(* Error taxonomy                                                          *)
(***************************************************************************)
TaxonomySubclasses ==
    { "BadRequestError", "UnauthorizedError", "ForbiddenError", "NotFoundError",
      "ConflictError", "ValidationError", "TooManyRequestsError",
      "InternalServerError" }

\* the class a class `extends`
Parent(cls) ==
    CASE cls \in TaxonomySubclasses -> "AppError"
      [] cls = "Error"              -> "Object"
      [] OTHER                      -> "Error"

ProtoChain(cls) == {cls, Parent(cls), Parent(Parent(cls))} \ {"Object"}

\* err instanceof cls: cls.prototype is on the prototype chain of err
instanceOf(err, cls) == cls \in ProtoChain(err.proto)

\* err.name: an own property when one was assigned, else the inherited one.
\* No class of the taxonomy defines `name`, so its instances inherit "Error".
NameOf(err) ==
    IF "name" \in DOMAIN err THEN err.name
    ELSE IF err.proto \in TaxonomySubclasses \cup {"AppError"} THEN "Error"
    ELSE err.proto

\* new.target is the class whose constructor was invoked with `new`
AppError(message, statusCode, code, isOperational, newTarget) ==
    LET super == [ proto |-> newTarget, message |-> message ]
        this  == super @@ [ statusCode    |-> Arg(statusCode, 500),
                            code          |-> Arg(code, "INTERNAL_ERROR"),
                            isOperational |-> Arg(isOperational, TRUE) ]
    IN  [ this EXCEPT !.proto = "AppError" ]

BadRequestError(message, code) ==
    AppError(Arg(message, "Bad Request"), Some(400), Some(Arg(code, "BAD_REQUEST")),
             None, "BadRequestError")

UnauthorizedError(message, code) ==
    AppError(Arg(message, "Unauthorized"), Some(401), Some(Arg(code, "UNAUTHORIZED")),
             None, "UnauthorizedError")

ForbiddenError(message, code) ==
    AppError(Arg(message, "Forbidden"), Some(403), Some(Arg(code, "FORBIDDEN")),
             None, "ForbiddenError")

NotFoundError(message, code) ==
    AppError(Arg(message, "Not Found"), Some(404), Some(Arg(code, "NOT_FOUND")),
             None, "NotFoundError")

ConflictError(message, code) ==
    AppError(Arg(message, "Conflict"), Some(409), Some(Arg(code, "CONFLICT")),
             None, "ConflictError")

ValidationError(message, errors) ==
    LET this == AppError(Arg(message, "Validation Error"), Some(422),
                         Some("VALIDATION_ERROR"), None, "ValidationError")
    IN  this @@ [ errors |-> Arg(errors, << >>) ]

TooManyRequestsError(message, code) ==
    AppError(Arg(message, "Too Many Requests"), Some(429), Some(Arg(code, "RATE_LIMITED")),
             None, "TooManyRequestsError")

InternalServerError_operational(message, code) ==
    AppError(Arg(message, "Internal Server Error"), Some(500),
             Some(Arg(code, "INTERNAL_ERROR")), None, "InternalServerError")

InternalServerError(message, code) ==
    AppError(Arg(message, "Internal Server Error"), Some(500),
             Some(Arg(code, "INTERNAL_ERROR")), Some(FALSE), "InternalServerError")

(***************************************************************************)
(* Response envelope builders.  A response is [status, body].              *)
(***************************************************************************)
sendSuccess_nullKeys(message, data, statusCode, meta) ==
    [ status |-> Arg(statusCode, 200),
      body   |-> [ success |-> TRUE, message |-> message,
                   data |-> Arg(data, [ type |-> "null" ]),
                   meta |-> Arg(meta, [ type |-> "null" ]) ] ]

sendSuccess(message, data, statusCode, meta) ==
    [ status |-> Arg(statusCode, 200),
      body   |-> [ success |-> TRUE, message |-> message ]
                 @@ (IF data # None THEN [ data |-> data[1] ] ELSE << >>)
                 @@ (IF meta # None THEN [ meta |-> meta[1] ] ELSE << >>) ]

sendError(message, statusCode, errors) ==
    [ status |-> Arg(statusCode, 500),
      body   |-> [ success |-> FALSE, message |-> message ]
                 @@ (IF errors # None THEN [ errors |-> errors[1] ] ELSE << >>) ]

MathFloorDiv(a, b) == a \div b

\* Math.ceil(a / b) for a >= 0, b >= 1: the quotient, one more when a remainder is left
MathCeilDiv(a, b) == IF a % b = 0 THEN a \div b ELSE (a \div b) + 1

sendPaginated(message, data, pagination) ==
    LET totalPages == MathCeilDiv(pagination.total, pagination.limit)
    IN  sendSuccess(message, Some(data), Some(200),
                    Some([ page       |-> pagination.page,
                           limit      |-> pagination.limit,
                           total      |-> pagination.total,
                           totalPages |-> totalPages ]))

(***************************************************************************)
(* Global error handler and not-found step                                 *)
(***************************************************************************)
errorLogEntry(err) ==
    [ level |-> "error", message |-> err.message, name |-> NameOf(err) ]

unknownErrorMessage_leak(err, cfg) == err.message

unknownErrorMessage(err, cfg) ==
    IF cfg.isProduction THEN "An unexpected error occurred" ELSE err.message

errorHandler_databaseFirst(err, cfg) ==
    IF NameOf(err) = "PrismaClientKnownRequestError" THEN
        sendError("Database operation failed", Some(400), None)
    ELSE IF NameOf(err) = "PrismaClientValidationError" THEN
        sendError("Invalid data provided", Some(400), None)
    ELSE IF instanceOf(err, "AppError") THEN
        sendError(err.message, Some(err.statusCode), None)
    ELSE IF instanceOf(err, "SyntaxError") /\ "body" \in DOMAIN err THEN
        sendError("Invalid JSON payload", Some(400), None)
    ELSE
        sendError(unknownErrorMessage(err, cfg), Some(500), None)

errorHandler(err, cfg) ==
    IF instanceOf(err, "AppError") THEN
        IF instanceOf(err, "ValidationError")
        THEN sendError(err.message, Some(err.statusCode), Some(err.errors))
        ELSE sendError(err.message, Some(err.statusCode), None)
    ELSE IF NameOf(err) = "PrismaClientKnownRequestError" THEN
        sendError("Database operation failed", Some(400), None)
    ELSE IF NameOf(err) = "PrismaClientValidationError" THEN
        sendError("Invalid data provided", Some(400), None)
    ELSE IF instanceOf(err, "SyntaxError") /\ "body" \in DOMAIN err THEN
        sendError("Invalid JSON payload", Some(400), None)
    ELSE
        sendError(unknownErrorMessage(err, cfg), Some(500), None)

notFoundHandler_pathOnly(req) ==
    sendError("Route " \o req.path \o " not found", Some(404), None)

notFoundHandler(req) ==
    sendError("Route " \o req.method \o " " \o req.path \o " not found", Some(404), None)

(***************************************************************************)
(* Validation gate.                                                        *)
(* A request section is an object flattened to its leaves: a function from *)
(* leaf paths (sequences of key segments) to values.  A schema is the      *)
(* sequence of its children in declaration order, each                     *)
(* [path, required, default, rules]; rules[v] is the sequence of the rule  *)
(* names the value v breaks, in the order the validator tests them.        *)
(***************************************************************************)
RECURSIVE JoinDot(_)
\* path.join('.')
JoinDot(path) ==
    IF Len(path) = 0 THEN ""
    ELSE IF Len(path) = 1 THEN path[1]
    ELSE path[1] \o "." \o JoinDot(Tail(path))

RuleText(rule) ==
    CASE rule = "required" -> "is required"
      [] rule = "min"      -> "length must be at least 3 characters long"
      [] rule = "pattern"  -> "fails to match the required pattern"
      [] rule = "unknown"  -> "is not allowed"

DetailFor(path, rule) ==
    [ path |-> path, message |-> "\"" \o JoinDot(path) \o "\" " \o RuleText(rule) ]

SchemaPaths(schema) == { schema[i].path : i \in 1..Len(schema) }

\* the violations of one child of the schema, in the order they are found
ChildDetails(child, data) ==
    IF child.path \in DOMAIN data
    THEN LET broken == child.rules[data[child.path]]
         IN  [ i \in 1..Len(broken) |-> DetailFor(child.path, broken[i]) ]
    ELSE IF child.required THEN << DetailFor(child.path, "required") >>
    ELSE << >>

RECURSIVE SchemaDetails(_, _)
SchemaDetails(schema, data) ==
    IF schema = << >> THEN << >>
    ELSE ChildDetails(Head(schema), data) \o SchemaDetails(Tail(schema), data)

RECURSIVE UnknownDetails(_, _, _)
\* keys of the input the schema does not know, in the input's key order
UnknownDetails(keyOrder, schema, data) ==
    IF keyOrder = << >> THEN << >>
    ELSE (IF Head(keyOrder) \in DOMAIN data \ SchemaPaths(schema)
          THEN << DetailFor(Head(keyOrder), "unknown") >> ELSE << >>)
         \o UnknownDetails(Tail(keyOrder), schema, data)

\* the order in which the keys of a request section are enumerated
KeyOrder == << <<"name">>, <<"address", "zip">>, <<"constructor">>, <<"extra">> >>

\* schema.validate(data, options): [error, value]
JoiValidate(schema, data, options) ==
    LET all == SchemaDetails(schema, data)
               \o (IF options.stripUnknown THEN << >>
                   ELSE UnknownDetails(KeyOrder, schema, data))
        details == IF options.abortEarly /\ Len(all) > 1 THEN << all[1] >> ELSE all
        kept == { p \in DOMAIN data : options.stripUnknown => p \in SchemaPaths(schema) }
        defaulted == { schema[i].path : i \in { j \in 1..Len(schema) :
                           schema[j].default # None /\ schema[j].path \notin DOMAIN data } }
        DefaultOf(p) == (CHOOSE i \in 1..Len(schema) : schema[i].path = p)
        value == [ p \in kept \cup defaulted |->
                     IF p \in DOMAIN data THEN data[p]
                     ELSE schema[DefaultOf(p)].default[1] ]
    IN  IF details # << >>
        THEN [ error |-> Some([ details |-> details ]), value |-> data ]
        ELSE [ error |-> None, value |-> value ]

\* properties every object literal inherits from Object.prototype
ObjectPrototypeKeys ==
    { "constructor", "toString", "valueOf", "hasOwnProperty", "isPrototypeOf",
      "propertyIsEnumerable", "toLocaleString", "__proto__" }

\* obj[key] is truthy: an own property (here always an array) or an inherited one
HasTruthy(obj, key) == key \in DOMAIN obj \/ key \in ObjectPrototypeKeys

RECURSIVE groupDetails(_, _)
\* error.details.forEach(...) over `errors`; [errors, thrown]
groupDetails(details, errors) ==
    IF details = << >> THEN [ errors |-> errors, thrown |-> None ]
    ELSE LET detail == Head(details)
             key == JoinDot(detail.path)
             errors1 == IF ~HasTruthy(errors, key)
                        THEN errors @@ (key :> << >>) ELSE errors
         IN  IF key \in DOMAIN errors1
             THEN groupDetails(Tail(details),
                               [ errors1 EXCEPT ![key] = Append(@, detail.message) ])
             ELSE \* errors[key] is the inherited property, which has no push
                  [ errors |-> errors1,
                    thrown |-> Some([ proto |-> "TypeError",
                                      message |-> "errors[key].push is not a function" ]) ]

validateOptions_keepUnknown == [ abortEarly |-> FALSE, stripUnknown |-> FALSE ]

validateOptions == [ abortEarly |-> FALSE, stripUnknown |-> TRUE ]

\* the step returned by validate(schema, target), run on req
validate(schema, target, req) ==
    LET data == req[target]
        result == JoiValidate(schema, data, validateOptions)
    IN  IF result.error # None THEN
            LET grouped == groupDetails(result.error[1].details, << >>) IN
            IF grouped.thrown # None
            THEN [ res |-> << >>, next |-> << >>, thrown |-> grouped.thrown,
                   req |-> Some(req) ]
            ELSE [ res |-> << >>,
                   next |-> << Some(ValidationError(Some("Validation failed"),
                                                    Some(grouped.errors))) >>,
                   thrown |-> None, req |-> Some(req) ]
        ELSE [ res |-> << >>, next |-> << None >>, thrown |-> None,
               req |-> Some([ req EXCEPT ![target] = result.value ]) ]

(***************************************************************************)
(* Rate-limit gate                                                         *)
(***************************************************************************)
\* what the limiter's `handler` option passes to next
defaultRateLimiterHandler_passes == None

defaultRateLimiterHandler ==
    Some(TooManyRequestsError(Some("Too many requests, please try again later"), None))

\* the limiter's store counts a hit of the client: a synchronous read and
\* write, which nothing can interleave on the event loop
increment_lost(store, key) == store

increment(store, key) == [ store EXCEPT ![key] = @ + 1 ]

\* rateLimit({windowMs, max, handler}): the hit is counted, then compared with
\* max; the handler runs when the count exceeds it, next() otherwise.
\* Returns what is passed to next.
defaultRateLimiter(totalHits, max) ==
    IF totalHits > max THEN defaultRateLimiterHandler ELSE None

(***************************************************************************)
(* Authentication gate.  A request is a record with `headers` (a function  *)
(* from the header names it carries) and, once an identity is attached,    *)
(* `user`.  Each step returns what it wrote, what it passed to next and    *)
(* the request it leaves behind.                                           *)
(***************************************************************************)
\* String.prototype.startsWith
startsWith(str, prefix) ==
    Len(str) >= Len(prefix) /\ SubSeq(str, 1, Len(prefix)) = prefix

\* String.prototype.split with a one-character separator; `acc` is the piece
\* being read
RECURSIVE split(_, _, _)
split(str, separator, acc) ==
    IF str = "" THEN << acc >>
    ELSE IF SubSeq(str, 1, 1) = separator
         THEN << acc >> \o split(SubSeq(str, 2, Len(str)), separator, "")
         ELSE split(SubSeq(str, 2, Len(str)), separator, acc \o SubSeq(str, 1, 1))

\* array[i], zero-based: undefined past the end
ItemAt(array, i) == IF i + 1 \in DOMAIN array THEN Some(array[i + 1]) ELSE None

\* !value on an optional string
Falsy_undefinedOnly(opt) == opt = None

Falsy(opt) == opt = None \/ opt = Some("")

\* req.headers.authorization
authorizationOf(req) ==
    IF "authorization" \in DOMAIN req.headers
    THEN Some(req.headers.authorization) ELSE None

\* the verification of the token is left to be written: nothing is decoded
\* and nothing is assigned to req.user
verifyToken_attaching(req, token) ==
    [ u \in {"user"} |-> [ id |-> "1", email |-> "a@b.c", role |-> "admin" ] ] @@ req

verifyToken(req, token) == req

authenticate_respondsItself(req) ==
    LET authHeader == authorizationOf(req) IN
    IF Falsy(authHeader) \/ ~startsWith(authHeader[1], "Bearer ")
    THEN [ res |-> << sendError("No token provided", Some(401), None) >>,
           next |-> << Some(UnauthorizedError(Some("No token provided"), None)) >>,
           thrown |-> None, req |-> Some(req) ]
    ELSE LET token == ItemAt(split(authHeader[1], " ", ""), 1) IN
         IF Falsy(token)
         THEN [ res |-> << sendError("Invalid token", Some(401), None) >>,
                next |-> << Some(UnauthorizedError(Some("Invalid token"), None)) >>,
                thrown |-> None, req |-> Some(req) ]
         ELSE [ res |-> << >>, next |-> << None >>, thrown |-> None,
                req |-> Some(verifyToken(req, token[1])) ]

\* both throws are caught by the function's own catch, which hands the error
\* to next
authenticate(req) ==
    LET authHeader == authorizationOf(req) IN
    IF Falsy(authHeader) \/ ~startsWith(authHeader[1], "Bearer ")
    THEN [ res |-> << >>,
           next |-> << Some(UnauthorizedError(Some("No token provided"), None)) >>,
           thrown |-> None, req |-> Some(req) ]
    ELSE LET token == ItemAt(split(authHeader[1], " ", ""), 1) IN
         IF Falsy(token)
         THEN [ res |-> << >>,
                next |-> << Some(UnauthorizedError(Some("Invalid token"), None)) >>,
                thrown |-> None, req |-> Some(req) ]
         ELSE [ res |-> << >>, next |-> << None >>, thrown |-> None,
                req |-> Some(verifyToken(req, token[1])) ]

\* Array.prototype.includes
includes(array, value) == \E i \in DOMAIN array : array[i] = value

insufficientPermissions_forbidden ==
    ForbiddenError(Some("Insufficient permissions"), None)

insufficientPermissions ==
    UnauthorizedError(Some("Insufficient permissions"), None)

\* the step returned by authorize(...allowedRoles), run on req
authorize(allowedRoles, req) ==
    IF "user" \notin DOMAIN req
    THEN [ res |-> << >>,
           next |-> << Some(UnauthorizedError(Some("User not authenticated"), None)) >>,
           thrown |-> None, req |-> Some(req) ]
    ELSE IF ~includes(allowedRoles, req.user.role)
    THEN [ res |-> << >>, next |-> << Some(insufficientPermissions) >>,
           thrown |-> None, req |-> Some(req) ]
    ELSE [ res |-> << >>, next |-> << None >>, thrown |-> None, req |-> Some(req) ]

optionalAuth_rejecting(req) ==
    LET authHeader == authorizationOf(req) IN
    IF ~Falsy(authHeader) /\ startsWith(authHeader[1], "Bearer ")
       /\ ~Falsy(ItemAt(split(authHeader[1], " ", ""), 1))
    THEN [ res |-> << >>, next |-> << None >>, thrown |-> None, req |-> Some(req) ]
    ELSE [ res |-> << >>,
           next |-> << Some(UnauthorizedError(Some("No token provided"), None)) >>,
           thrown |-> None, req |-> Some(req) ]

\* the token, when there is one, is read and nothing is done with it
optionalAuth(req) ==
    LET authHeader == authorizationOf(req)
        token == IF ~Falsy(authHeader) /\ startsWith(authHeader[1], "Bearer ")
                 THEN ItemAt(split(authHeader[1], " ", ""), 1) ELSE None
    IN  [ res |-> << >>, next |-> << None >>, thrown |-> None,
          req |-> Some(IF Falsy(token) THEN req ELSE req) ]

(***************************************************************************)
(* Database handle.  `handle` is whether the module's `prisma` variable    *)
(* has been assigned a client.                                             *)
(***************************************************************************)
\* the `log` option the client is built with
clientLog(cfg) ==
    IF cfg.isDevelopment THEN <<"query", "info", "warn", "error">> ELSE <<"error">>

initializeDatabase_assignAfterConnect(connectOk, cfg) ==
    [ prisma    |-> connectOk,
      clientLog |-> clientLog(cfg),
      thrown    |-> IF connectOk THEN None
                    ELSE Some([ proto |-> "Error",
                                message |-> "Can't reach database server" ]),
      ret       |-> IF connectOk THEN Some("PrismaClient") ELSE None,
      log       |-> IF connectOk
                    THEN [ level |-> "info", message |-> "Database connection established" ]
                    ELSE [ level |-> "error", message |-> "Failed to connect to database:" ] ]

\* the client is assigned to `prisma` before $connect is awaited; what
\* $connect throws is logged and thrown again
initializeDatabase(connectOk, cfg) ==
    [ prisma    |-> TRUE,
      clientLog |-> clientLog(cfg),
      thrown    |-> IF connectOk THEN None
                    ELSE Some([ proto |-> "Error",
                                message |-> "Can't reach database server" ]),
      ret       |-> IF connectOk THEN Some("PrismaClient") ELSE None,
      log       |-> IF connectOk
                    THEN [ level |-> "info", message |-> "Database connection established" ]
                    ELSE [ level |-> "error", message |-> "Failed to connect to database:" ] ]

\* prisma?.$disconnect(): nothing is called while no client is assigned;
\* disconnectOk is whether $disconnect resolves
disconnectDatabase(handle, disconnectOk) ==
    IF handle /\ ~disconnectOk
    THEN [ prisma |-> handle,
           thrown |-> Some([ proto |-> "Error", message |-> "disconnect failed" ]),
           log |-> None ]
    ELSE [ prisma |-> handle, thrown |-> None,
           log |-> Some([ level |-> "info", message |-> "Database connection closed" ]) ]

getDatabase(handle) ==
    IF ~handle
    THEN [ thrown |-> Some([ proto |-> "Error",
                             message |-> "Database not initialized. Call initializeDatabase first." ]),
           ret |-> None ]
    ELSE [ thrown |-> None, ret |-> Some("PrismaClient") ]

(***************************************************************************)
(* Health probe                                                            *)
(***************************************************************************)
getHealthStatus_unhealthy ==
    [ status |-> "unhealthy", timestamp |-> "now", uptime |-> "uptime",
      version |-> "1.0.0" ]

\* timestamp and uptime are readings of the clock, left abstract
getHealthStatus ==
    [ status |-> "healthy", timestamp |-> "now", uptime |-> "uptime",
      version |-> "1.0.0" ]

\* getDatabase(): throws while no client has been assigned
getDatabaseThrows(handle) == ~handle

\* checkDatabase(): queryOk is whether `SELECT 1` resolves
checkDatabase_latencyAlways(handle, queryOk, latency) ==
    IF getDatabaseThrows(handle) \/ ~queryOk
    THEN [ status |-> "disconnected", latency |-> latency ]
    ELSE [ status |-> "connected", latency |-> latency ]

checkDatabase(handle, queryOk, latency) ==
    IF getDatabaseThrows(handle) \/ ~queryOk
    THEN [ status |-> "disconnected" ]
    ELSE [ status |-> "connected", latency |-> latency ]

\* Math.round((used / total) * 100) for 0 <= used <= total, total > 0
MathRoundPercent(used, total) == (200 * used + total) \div (2 * total)

getMemoryUsage(used, total) ==
    [ used |-> used, total |-> total, percentage |-> MathRoundPercent(used, total) ]

determineOverallStatus_anyDegraded(statuses) ==
    LET disconnectedCount ==
            Cardinality({ i \in 1..Len(statuses) : statuses[i] = "disconnected" })
    IN  IF disconnectedCount > 0 THEN "degraded"
        ELSE IF disconnectedCount = Len(statuses) THEN "unhealthy"
        ELSE "healthy"

determineOverallStatus(statuses) ==
    LET disconnectedCount ==
            Cardinality({ i \in 1..Len(statuses) : statuses[i] = "disconnected" })
    IN  IF disconnectedCount = Len(statuses) THEN "unhealthy"
        ELSE IF disconnectedCount > 0 THEN "degraded"
        ELSE "healthy"

getDetailedHealth(handle, queryOk, latency, used, total) ==
    LET basicHealth == getHealthStatus
        dbHealth == checkDatabase(handle, queryOk, latency)
        overallStatus == determineOverallStatus(<< dbHealth.status >>)
    IN  [ status       |-> overallStatus,
          timestamp    |-> basicHealth.timestamp,
          uptime       |-> basicHealth.uptime,
          version      |-> basicHealth.version,
          dependencies |-> [ database |-> dbHealth ],
          memory       |-> getMemoryUsage(used, total) ]

\* HealthController.check
check == sendSuccess("Service is healthy", Some(getHealthStatus), None, None)

detailedStatusCode_always200(health) == 200

detailedStatusCode(health) == IF health.status = "healthy" THEN 200 ELSE 503

\* HealthController.detailed
detailed(health) ==
    sendSuccess("Service is " \o health.status, Some(health),
                Some(detailedStatusCode(health)), None)

(***************************************************************************)
(* Routing of createApp: the health router is the only one with routes     *)
(***************************************************************************)
\* the handler a request is dispatched to once it reaches the routers
routeOf(r) ==
    IF r.method = "GET" /\ r.path = "/health" THEN "health.check"
    ELSE IF r.method = "GET" /\ r.path = "/health/detailed" THEN "health.detailed"
    ELSE "notFound"

(***************************************************************************)
(* Bounds and input domains                                                *)
(***************************************************************************)
MaxTotal == 7
MaxLimit == 3
MaxPage  == 2
MaxMax   == 2

Messages == {"boom", "secret: db password"}
Codes    == {"E_CUSTOM"}

JsNull == [ type |-> "null" ]
DataValues == { JsNull, [ type |-> "string", v |-> "" ], [ type |-> "object", v |-> "payload" ] }
ItemLists  == { << >>, <<"item">> }
MetaValues == { [ page |-> 1 ], [ page |-> 1, limit |-> 10, total |-> 0, totalPages |-> 0 ] }
StatusCodes == {200, 201, 400, 503}

FieldErrorMaps ==
    { [ email |-> <<"\"email\" is required">> ],
      [ email |-> <<"\"email\" is required">>,
        age   |-> <<"\"age\" must be a number", "\"age\" must be positive">> ] }

ForeignClasses ==
    { "Error", "TypeError", "SyntaxError",
      "PrismaClientKnownRequestError", "PrismaClientValidationError" }

Idle  == [ op |-> "none" ]
NoOut == [ res |-> << >>, next |-> << >>, thrown |-> None, req |-> None ]
Responded(response) == [ NoOut EXCEPT !.res = <<response>> ]

Clients == {"10.0.0.1", "10.0.0.2"}

\* requests in flight at once
MaxInFlight == 3
\* dependencies a health report may cover
MaxDeps == 3
\* calls made to the database module
MaxCalls == 4
NoFlight == [ ip |-> "", at |-> "none", totalHits |-> 0 ]

AuthHeaders ==
    { "", "Basic abc", "Bearer", "bearer abc", "Bearer ", "Bearer abc",
      "Bearer  abc", "Bearer abc def" }
HeaderSets ==
    { [ host |-> "api" ] } \cup
    { [ host |-> "api", authorization |-> h ] : h \in AuthHeaders }
Roles == {"admin", "user"}
Identities == { [ id |-> "1", email |-> "a@b.c", role |-> r ] : r \in Roles }
RoleLists == { << >>, <<"admin">>, <<"user">>, <<"admin", "user">> }
AuthRequests ==
    { [ headers |-> h ] : h \in HeaderSets } \cup
    { [ headers |-> h, user |-> u ] : h \in HeaderSets, u \in Identities }
NoReq == [ method |-> "", path |-> "", ip |-> "", payload |-> "" ]

\* the process after the modules are loaded and createApp has run
InitWith(envs, limits) ==
    /\ NODE_ENV \in envs
    /\ maxRequests \in limits
    /\ call = Idle
    /\ out = NoOut
    /\ lastLog = None
    /\ hits = [ c \in Clients |-> 0 ]
    /\ served = [ c \in Clients |-> << >> ]
    /\ prisma = FALSE
    /\ dbUp \in BOOLEAN
    /\ request = NoReq
    /\ pc = "idle"
    /\ raised = None
    /\ written = << >>
    /\ trace = << >>
    /\ ping = "none"
    /\ inflight = [ i \in 1..MaxInFlight |-> NoFlight ]

InitCalls == InitWith(NodeEnvValues, {MaxMax}) /\ dbUp

Init == InitWith({None, Some("production")}, 1..MaxMax)

(***************************************************************************)
(* The application built by createApp, one request at a time               *)
(***************************************************************************)
Methods   == {"GET", "POST", "OPTIONS"}
Paths     == {"/health", "/health/detailed", "/nope", "/api/v1/users"}
Payloads  == {"ok", "malformed"}
Latencies == {0, 5}
HeapUsed  == {1, 2}
HeapTotal == {3}

Step(name) == trace' = Append(trace, name)

\* a request arrives; hits are capped so that the store stays bounded
Arrive ==
    /\ pc = "idle"
    /\ \E ip \in Clients, method \in Methods, path \in Paths, payload \in Payloads :
        /\ hits[ip] <= maxRequests + 1
        /\ request' = [ method |-> method, path |-> path, ip |-> ip, payload |-> payload ]
    /\ pc' = "cors"
    /\ raised' = None /\ written' = << >> /\ trace' = << >> /\ ping' = "none"
    /\ UNCHANGED <<NODE_ENV, maxRequests, inflight, call, out, lastLog, hits, served, prisma, dbUp>>

\* helmet, cors, compression: only cors ends a request, the preflight one
Cors ==
    /\ pc = "cors"
    /\ Step("cors")
    /\ IF request.method = "OPTIONS"
       THEN written' = Append(written, [ status |-> 204, body |-> << >> ]) /\ pc' = "done"
       ELSE written' = written /\ pc' = "bodyParser"
    /\ UNCHANGED <<NODE_ENV, maxRequests, inflight, call, out, lastLog, hits, served, prisma, dbUp,
                   request, raised, ping>>

BodyParser_lenient ==
    /\ pc = "bodyParser"
    /\ Step("bodyParser")
    /\ pc' = "rateLimiter"
    /\ UNCHANGED <<NODE_ENV, maxRequests, inflight, call, out, lastLog, hits, served, prisma,
                   dbUp, request, raised, written, ping>>

\* express.json / express.urlencoded: a body that does not parse is signalled
\* as a SyntaxError carrying the raw `body`
BodyParser ==
    /\ pc = "bodyParser"
    /\ Step("bodyParser")
    /\ IF request.payload = "malformed"
       THEN /\ raised' = Some([ proto |-> "SyntaxError",
                                message |-> "Unexpected token in JSON",
                                body |-> "{bad json" ])
            /\ pc' = "errorHandler"
       ELSE raised' = raised /\ pc' = "rateLimiter"
    /\ UNCHANGED <<NODE_ENV, maxRequests, inflight, call, out, lastLog, hits, served, prisma, dbUp,
                   request, written, ping>>

RateLimiter ==
    /\ pc = "rateLimiter"
    /\ Step("rateLimiter")
    /\ LET totalHits == hits[request.ip] + 1
           passed == defaultRateLimiter(totalHits, maxRequests)
       IN  /\ hits' = [ hits EXCEPT ![request.ip] = totalHits ]
           /\ served' = [ served EXCEPT ![request.ip] = Append(@, passed) ]
           /\ raised' = passed
           /\ pc' = IF passed = None THEN "router" ELSE "errorHandler"
    /\ UNCHANGED <<NODE_ENV, maxRequests, inflight, call, out, lastLog, prisma, dbUp,
                   request, written, ping>>

\* request logging, then the routers in mount order
Router ==
    /\ pc = "router"
    /\ Step("router")
    /\ lastLog' = Some([ level |-> "http",
                         message |-> request.method \o " " \o request.path ])
    /\ pc' = routeOf(request)
    /\ UNCHANGED <<NODE_ENV, maxRequests, inflight, call, out, hits, served, prisma, dbUp,
                   request, raised, written, ping>>

HealthCheck ==
    /\ pc = "health.check"
    /\ Step("health.check")
    /\ written' = Append(written, check)
    /\ pc' = "done"
    /\ UNCHANGED <<NODE_ENV, maxRequests, inflight, call, out, lastLog, hits, served, prisma, dbUp,
                   request, raised, ping>>

HealthDetailed ==
    /\ pc = "health.detailed"
    /\ Step("health.detailed")
    /\ \E latency \in Latencies, used \in HeapUsed, total \in HeapTotal :
        LET health == getDetailedHealth(prisma, dbUp, latency, used, total) IN
        /\ written' = Append(written, detailed(health))
        /\ ping' = IF getDatabaseThrows(prisma) THEN "notAttempted"
                   ELSE IF dbUp THEN "ok" ELSE "failed"
        /\ lastLog' = IF health.dependencies.database.status = "disconnected"
                      THEN Some([ level |-> "error",
                                  message |-> "Database health check failed:" ])
                      ELSE lastLog
    /\ pc' = "done"
    /\ UNCHANGED <<NODE_ENV, maxRequests, inflight, call, out, hits, served, prisma, dbUp,
                   request, raised>>

NotFoundHandler ==
    /\ pc = "notFound"
    /\ Step("notFound")
    /\ written' = Append(written, notFoundHandler(request))
    /\ pc' = "done"
    /\ UNCHANGED <<NODE_ENV, maxRequests, inflight, call, out, lastLog, hits, served, prisma, dbUp,
                   request, raised, ping>>

ErrorHandler ==
    /\ pc = "errorHandler"
    /\ Step("errorHandler")
    /\ lastLog' = Some(errorLogEntry(raised[1]))
    /\ written' = Append(written, errorHandler(raised[1], config(NODE_ENV)))
    /\ pc' = "done"
    /\ UNCHANGED <<NODE_ENV, maxRequests, inflight, call, out, hits, served, prisma, dbUp,
                   request, raised, ping>>

\* the response has been sent: the application waits for the next request
Finish ==
    /\ pc = "done"
    /\ pc' = "idle"
    /\ request' = NoReq /\ raised' = None /\ written' = << >> /\ trace' = << >>
    /\ ping' = "none"
    /\ UNCHANGED <<NODE_ENV, maxRequests, inflight, call, out, lastLog, hits, served, prisma, dbUp>>

\* windowMs has elapsed for a client: its count starts again
WindowElapsed_countKept ==
    /\ \E ip \in Clients :
        /\ hits[ip] > 0
        /\ hits' = hits
        /\ served' = [ served EXCEPT ![ip] = << >> ]
    /\ UNCHANGED <<NODE_ENV, maxRequests, inflight, call, out, lastLog, prisma, dbUp,
                   request, pc, raised, written, trace, ping>>

WindowElapsed ==
    /\ \E ip \in Clients :
        /\ hits[ip] > 0
        /\ hits' = [ hits EXCEPT ![ip] = 0 ]
        /\ served' = [ served EXCEPT ![ip] = << >> ]
    /\ UNCHANGED <<NODE_ENV, maxRequests, inflight, call, out, lastLog, prisma, dbUp,
                   request, pc, raised, written, trace, ping>>

\* initializeDatabase(): the client is assigned before $connect is awaited
InitializeDatabase ==
    /\ ~prisma
    /\ prisma' = TRUE
    /\ lastLog' = Some([ level |-> IF dbUp THEN "info" ELSE "error",
                         message |-> IF dbUp THEN "Database connection established"
                                     ELSE "Failed to connect to database:" ])
    /\ UNCHANGED <<NODE_ENV, maxRequests, inflight, call, out, hits, served, dbUp,
                   request, pc, raised, written, trace, ping>>

\* the database server goes down or comes back
DatabaseFlips ==
    /\ dbUp' = ~dbUp
    /\ UNCHANGED <<NODE_ENV, maxRequests, inflight, call, out, lastLog, hits, served, prisma,
                   request, pc, raised, written, trace, ping>>

Next ==
    \/ Arrive
    \/ Cors
    \/ BodyParser
    \/ RateLimiter
    \/ Router
    \/ HealthCheck
    \/ HealthDetailed
    \/ NotFoundHandler
    \/ ErrorHandler
    \/ Finish
    \/ WindowElapsed
    \/ InitializeDatabase
    \/ DatabaseFlips

Spec == Init /\ [][Next]_vars

(***************************************************************************)
(* The envelope builders, called with every combination of arguments       *)
(***************************************************************************)
\* the invocation is over: its caller goes on
Return ==
    /\ call # Idle
    /\ call' = Idle
    /\ out' = NoOut
    /\ UNCHANGED <<NODE_ENV, maxRequests, inflight, lastLog, appVars>>

SendSuccess ==
    /\ call = Idle
    /\ \E message \in Messages, data \in Opt(DataValues),
       statusCode \in Opt(StatusCodes), meta \in Opt(MetaValues) :
        /\ call' = [ op |-> "sendSuccess", message |-> message, data |-> data,
                     statusCode |-> statusCode, meta |-> meta ]
        /\ out' = Responded(sendSuccess(message, data, statusCode, meta))
        /\ UNCHANGED <<NODE_ENV, maxRequests, inflight, lastLog, appVars>>

SendError ==
    /\ call = Idle
    /\ \E message \in Messages, statusCode \in Opt(StatusCodes),
       errors \in Opt(FieldErrorMaps \cup {<< >>}) :
        /\ call' = [ op |-> "sendError", message |-> message,
                     statusCode |-> statusCode, errors |-> errors ]
        /\ out' = Responded(sendError(message, statusCode, errors))
        /\ UNCHANGED <<NODE_ENV, maxRequests, inflight, lastLog, appVars>>

SendPaginated ==
    /\ call = Idle
    /\ \E message \in Messages, data \in ItemLists,
       page \in 1..MaxPage, limit \in 1..MaxLimit, total \in 0..MaxTotal :
        LET pagination == [ page |-> page, limit |-> limit, total |-> total ] IN
        /\ call' = [ op |-> "sendPaginated", message |-> message, data |-> data,
                     pagination |-> pagination ]
        /\ out' = Responded(sendPaginated(message, data, pagination))
        /\ UNCHANGED <<NODE_ENV, maxRequests, inflight, lastLog, appVars>>

NextEnvelope == SendSuccess \/ SendError \/ SendPaginated \/ Return

SpecEnvelope == InitCalls /\ [][NextEnvelope]_vars

(***************************************************************************)
(* The global error handler, given every error the program can construct   *)
(***************************************************************************)
Construct(kind, message, code) ==
    CASE kind = "BadRequestError"      -> BadRequestError(message, code)
      [] kind = "UnauthorizedError"    -> UnauthorizedError(message, code)
      [] kind = "ForbiddenError"       -> ForbiddenError(message, code)
      [] kind = "NotFoundError"        -> NotFoundError(message, code)
      [] kind = "ConflictError"        -> ConflictError(message, code)
      [] kind = "TooManyRequestsError" -> TooManyRequestsError(message, code)
      [] kind = "InternalServerError"  -> InternalServerError(message, code)

HandleError(ctor, err) ==
    /\ call = Idle
    /\ call' = [ op |-> "errorHandler", ctor |-> ctor, err |-> err ]
    /\ out' = Responded(errorHandler(err, config(NODE_ENV)))
    /\ lastLog' = Some(errorLogEntry(err))
    /\ UNCHANGED <<NODE_ENV, maxRequests, inflight, appVars>>

HandleTaxonomyError ==
    \E kind \in TaxonomySubclasses \ {"ValidationError"},
       message \in Opt(Messages), code \in Opt(Codes) :
        HandleError(kind, Construct(kind, message, code))

HandleValidationError ==
    \E message \in Opt(Messages), errors \in Opt(FieldErrorMaps \cup {<< >>}) :
        HandleError("ValidationError", ValidationError(message, errors))

HandleAppError ==
    \E message \in Messages, statusCode \in Opt(StatusCodes),
       code \in Opt(Codes), isOperational \in Opt(BOOLEAN) :
        HandleError("AppError", AppError(message, statusCode, code, isOperational, "AppError"))

\* errors raised outside the taxonomy: by the runtime, the body parser (which
\* sets `body` on its SyntaxError) or the database client
HandleForeignError ==
    \E cls \in ForeignClasses, message \in Messages, hasBody \in BOOLEAN :
        HandleError(cls, [ proto |-> cls, message |-> message ]
                         @@ (IF hasBody THEN [ body |-> "{bad json" ] ELSE << >>))

\* errors whose `name` was assigned after construction
DatabaseErrorNames == { "PrismaClientKnownRequestError", "PrismaClientValidationError" }

HandleNamedError ==
    \/ \E kind \in TaxonomySubclasses \ {"ValidationError"}, message \in Messages,
          name \in DatabaseErrorNames :
          HandleError(kind, [ n \in {"name"} |-> name ] @@ Construct(kind, Some(message), None))
    \/ \E cls \in ForeignClasses, message \in Messages, hasBody \in BOOLEAN,
          name \in DatabaseErrorNames :
          HandleError(cls, [ proto |-> cls, message |-> message, name |-> name ]
                           @@ (IF hasBody THEN [ body |-> "{bad json" ] ELSE << >>))

NextErrorHandler ==
    \/ HandleTaxonomyError
    \/ HandleNamedError
    \/ HandleValidationError
    \/ HandleAppError
    \/ HandleForeignError
    \/ Return

SpecErrorHandler == InitCalls /\ [][NextErrorHandler]_vars

(***************************************************************************)
(* The constructors of the taxonomy, called with and without overrides     *)
(***************************************************************************)
NewError ==
    /\ call = Idle
    /\ \E kind \in TaxonomySubclasses \ {"ValidationError"},
          message \in Opt(Messages), code \in Opt(Codes) :
        /\ call' = [ op |-> "new", kind |-> kind, message |-> message, code |-> code ]
        /\ out' = [ ret |-> Construct(kind, message, code) ]
    /\ UNCHANGED <<NODE_ENV, maxRequests, inflight, lastLog, appVars>>

NewValidationError ==
    /\ call = Idle
    /\ \E message \in Opt(Messages), errors \in Opt(FieldErrorMaps \cup {<< >>}) :
        /\ call' = [ op |-> "new", kind |-> "ValidationError", message |-> message,
                     errors |-> errors ]
        /\ out' = [ ret |-> ValidationError(message, errors) ]
    /\ UNCHANGED <<NODE_ENV, maxRequests, inflight, lastLog, appVars>>

NextErrors == NewError \/ NewValidationError \/ Return

SpecErrors == InitCalls /\ [][NextErrors]_vars

(***************************************************************************)
(* The validation step, run on every schema and request of the domains     *)
(***************************************************************************)
Values == {"ok", "ab", "!"}

\* rules of a string child with min(3) and a pattern: what each value breaks
StringRules ==
    [ v \in Values |-> CASE v = "ok" -> << >>
                         [] v = "ab" -> <<"min">>
                         [] v = "!"  -> <<"min", "pattern">> ]

Children ==
    { [ path |-> <<"name">>, required |-> TRUE, default |-> None, rules |-> StringRules ],
      [ path |-> <<"address", "zip">>, required |-> FALSE, default |-> Some("00000"),
        rules |-> StringRules ],
      [ path |-> <<"constructor">>, required |-> TRUE, default |-> None,
        rules |-> StringRules ] }

Schemas ==
    { sch \in UNION { [1..n -> Children] : n \in 1..Cardinality(Children) } :
        \A i, j \in 1..Len(sch) : i # j => sch[i].path # sch[j].path }

DataPaths == { KeyOrder[i] : i \in 1..Len(KeyOrder) }
Sections  == UNION { [D -> Values] : D \in SUBSET DataPaths }
Targets   == {"body", "query", "params"}
Untouched == (<<"keep">> :> "ok")

Validate ==
    /\ call = Idle
    /\ \E schema \in Schemas, target \in Targets, data \in Sections :
        LET req == [ t \in Targets |-> IF t = target THEN data ELSE Untouched ] IN
        /\ call' = [ op |-> "validate", schema |-> schema, target |-> target, req |-> req ]
        /\ out' = validate(schema, target, req)
    /\ UNCHANGED <<NODE_ENV, maxRequests, inflight, lastLog, appVars>>

NextValidate == Validate \/ Return

SpecValidate == InitCalls /\ [][NextValidate]_vars

(***************************************************************************)
(* The authentication steps, run on every request of the domains           *)
(***************************************************************************)
Authenticate ==
    /\ call = Idle
    /\ \E req \in AuthRequests :
        /\ call' = [ op |-> "authenticate", req |-> req ]
        /\ out' = authenticate(req)
    /\ UNCHANGED <<NODE_ENV, maxRequests, inflight, lastLog, appVars>>

Authorize ==
    /\ call = Idle
    /\ \E allowedRoles \in RoleLists, req \in AuthRequests :
        /\ call' = [ op |-> "authorize", allowedRoles |-> allowedRoles, req |-> req ]
        /\ out' = authorize(allowedRoles, req)
    /\ UNCHANGED <<NODE_ENV, maxRequests, inflight, lastLog, appVars>>

OptionalAuth ==
    /\ call = Idle
    /\ \E req \in AuthRequests :
        /\ call' = [ op |-> "optionalAuth", req |-> req ]
        /\ out' = optionalAuth(req)
    /\ UNCHANGED <<NODE_ENV, maxRequests, inflight, lastLog, appVars>>

NextAuth == Authenticate \/ Authorize \/ OptionalAuth \/ Return

SpecAuth == InitCalls /\ [][NextAuth]_vars

(***************************************************************************)
(* The health service, called in every state of the database              *)
(***************************************************************************)
DependencyStatuses ==
    UNION { [ 1..n -> {"connected", "disconnected"} ] : n \in 0..MaxDeps }

DetermineOverallStatus ==
    /\ call = Idle
    /\ \E statuses \in DependencyStatuses :
        /\ call' = [ op |-> "determineOverallStatus", statuses |-> statuses ]
        /\ out' = [ ret |-> determineOverallStatus(statuses) ]
    /\ UNCHANGED <<NODE_ENV, maxRequests, inflight, lastLog, appVars>>

GetDetailedHealth ==
    /\ call = Idle
    /\ \E handle \in BOOLEAN, queryOk \in BOOLEAN, latency \in Latencies,
          used \in HeapUsed, total \in HeapTotal :
        /\ call' = [ op |-> "getDetailedHealth", handle |-> handle, queryOk |-> queryOk,
                     latency |-> latency ]
        /\ out' = [ ret |-> getDetailedHealth(handle, queryOk, latency, used, total) ]
    /\ UNCHANGED <<NODE_ENV, maxRequests, inflight, lastLog, appVars>>

NextHealth == DetermineOverallStatus \/ GetDetailedHealth \/ Return

SpecHealth == InitCalls /\ [][NextHealth]_vars

(***************************************************************************)
(* The database module, called in any order                                *)
(***************************************************************************)
InitDatabase == InitWith(NodeEnvValues, {MaxMax})

CallInitializeDatabase ==
    /\ call = Idle
    /\ Len(trace) < MaxCalls
    /\ LET r == initializeDatabase(dbUp, config(NODE_ENV)) IN
        /\ call' = [ op |-> "initializeDatabase", connectOk |-> dbUp ]
        /\ out' = [ thrown |-> r.thrown, ret |-> r.ret, clientLog |-> r.clientLog ]
        /\ prisma' = r.prisma
        /\ lastLog' = Some(r.log)
    /\ trace' = Append(trace, "initializeDatabase")
    /\ UNCHANGED <<NODE_ENV, maxRequests, inflight, hits, served, dbUp, request, pc,
                   raised, written, ping>>

CallDisconnectDatabase ==
    /\ call = Idle
    /\ Len(trace) < MaxCalls
    /\ \E disconnectOk \in BOOLEAN :
        LET r == disconnectDatabase(prisma, disconnectOk) IN
        /\ call' = [ op |-> "disconnectDatabase" ]
        /\ out' = [ thrown |-> r.thrown, ret |-> None ]
        /\ prisma' = r.prisma
        /\ lastLog' = IF r.log = None THEN lastLog ELSE r.log
    /\ trace' = Append(trace, "disconnectDatabase")
    /\ UNCHANGED <<NODE_ENV, maxRequests, inflight, hits, served, dbUp, request, pc,
                   raised, written, ping>>

CallGetDatabase ==
    /\ call = Idle
    /\ Len(trace) < MaxCalls
    /\ call' = [ op |-> "getDatabase" ]
    /\ out' = getDatabase(prisma)
    /\ trace' = Append(trace, "getDatabase")
    /\ UNCHANGED <<NODE_ENV, maxRequests, inflight, lastLog, hits, served, prisma, dbUp,
                   request, pc, raised, written, ping>>

NextDatabase ==
    \/ CallInitializeDatabase
    \/ CallDisconnectDatabase
    \/ CallGetDatabase
    \/ DatabaseFlips
    \/ Return

SpecDatabase == InitDatabase /\ [][NextDatabase]_vars

(***************************************************************************)
(* The application with a module's routes mounted on the API router, as    *)
(* the module guide prescribes: each route is a chain of gates that ends   *)
(* with a controller method.  A request goes through the rate-limit gate,  *)
(* the chain of the route it matches, the not-found step when none         *)
(* matches, and the global error handler once a step has signalled.        *)
(***************************************************************************)
ChildAt(path) == CHOOSE c \in Children : c.path = path
RouteSchemas ==
    { << ChildAt(<<"name">>) >>,
      << ChildAt(<<"name">>), ChildAt(<<"constructor">>) >> }
RouteBodies  == { (<<"name">> :> "ok"), (<<"name">> :> "ab"), << >> }
RouteHeaders ==
    { [ host |-> "api" ] } \cup
    { [ host |-> "api", authorization |-> h ] : h \in {"Basic abc", "Bearer ", "Bearer abc"} }
RoutePaths == {"/api/v1/products", "/api/v1/nope"}

AuthGates == { << >>, << [ kind |-> "authenticate" ] >>, << [ kind |-> "optionalAuth" ] >> }
RoleGates ==
    { << >> } \cup
    { << [ kind |-> "authorize", allowedRoles |-> roles ] >> : roles \in RoleLists }
ValidationGates ==
    { << >> } \cup
    { << [ kind |-> "validate", schema |-> schema, target |-> "body" ] >> :
        schema \in RouteSchemas }
RouteStacks ==
    { a \o r \o v \o << [ kind |-> "controller" ] >> :
        a \in AuthGates, r \in RoleGates, v \in ValidationGates }

\* what the service called by a controller method throws, if anything
ControllerFailures ==
    Opt({ NotFoundError(Some("Product not found"), None),
          [ proto |-> "Error", message |-> "boom" ] })

\* a controller method: it answers with sendSuccess, or catches what the
\* service threw and hands it to next
controller(req, failure) ==
    IF failure = None
    THEN [ res |-> << sendSuccess("Product created",
                                  Some([ type |-> "object", v |-> "payload" ]),
                                  Some(201), None) >>,
           next |-> << >>, thrown |-> None, req |-> Some(req) ]
    ELSE [ res |-> << >>, next |-> << failure >>, thrown |-> None, req |-> Some(req) ]

RunStep(step, req, failure) ==
    CASE step.kind = "authenticate" -> authenticate(req)
      [] step.kind = "optionalAuth" -> optionalAuth(req)
      [] step.kind = "authorize"    -> authorize(step.allowedRoles, req)
      [] step.kind = "validate"     -> validate(step.schema, step.target, req)
      [] step.kind = "controller"   -> controller(req, failure)

\* the error a step hands to the router: the one it passed to next, or the
\* one it threw, which the router catches and passes to next itself
Signalled(o) ==
    IF o.thrown # None THEN o.thrown
    ELSE IF o.next # << >> /\ o.next[1] # None THEN o.next[1]
    ELSE None

InitRoute == InitWith({None, Some("production")}, {1}) /\ dbUp

ArriveAtRoute ==
    /\ pc = "idle"
    /\ \E ip \in Clients, path \in RoutePaths, headers \in RouteHeaders,
          body \in RouteBodies :
        /\ hits[ip] <= maxRequests + 1
        /\ request' = [ method |-> "POST", path |-> path, ip |-> ip, payload |-> "ok",
                        headers |-> headers, body |-> body,
                        query |-> Untouched, params |-> Untouched ]
    /\ pc' = "rateLimiter"
    /\ raised' = None /\ written' = << >> /\ trace' = << >> /\ ping' = "none"
    /\ UNCHANGED <<NODE_ENV, maxRequests, inflight, call, out, lastLog, hits, served, prisma, dbUp>>

\* request logging, then the API router: the chain of the matching route
ApiRouter ==
    /\ pc = "router"
    /\ Step("router")
    /\ lastLog' = Some([ level |-> "http",
                         message |-> request.method \o " " \o request.path ])
    /\ IF request.path = "/api/v1/products"
       THEN /\ \E stack \in RouteStacks :
                call' = [ op |-> "route", stack |-> stack, at |-> 1 ]
            /\ pc' = "route"
       ELSE call' = call /\ pc' = "notFound"
    /\ UNCHANGED <<NODE_ENV, maxRequests, inflight, out, hits, served, prisma, dbUp,
                   request, raised, written, ping>>

\* the next step of the chain runs
RouteStep ==
    /\ pc = "route"
    /\ \E failure \in ControllerFailures :
        LET step == call.stack[call.at]
            o    == RunStep(step, request, failure)
        IN  /\ Step(step.kind)
            /\ out' = o
            /\ request' = o.req[1]
            /\ written' = written \o o.res
            /\ raised' = Signalled(o)
            /\ call' = [ call EXCEPT !.at = @ + 1 ]
            /\ pc' = IF Signalled(o) # None THEN "errorHandler"
                     ELSE IF o.next = << None >>
                          THEN IF call.at < Len(call.stack) THEN "route" ELSE "notFound"
                          ELSE "done"
    /\ UNCHANGED <<NODE_ENV, maxRequests, inflight, lastLog, hits, served, prisma, dbUp, ping>>

FinishRoute ==
    /\ pc = "done"
    /\ pc' = "idle"
    /\ request' = NoReq /\ raised' = None /\ written' = << >> /\ trace' = << >>
    /\ call' = Idle /\ out' = NoOut
    /\ UNCHANGED <<NODE_ENV, maxRequests, inflight, lastLog, hits, served, prisma, dbUp, ping>>

NextRoute ==
    \/ ArriveAtRoute
    \/ RateLimiter
    \/ ApiRouter
    \/ RouteStep
    \/ NotFoundHandler
    \/ ErrorHandler
    \/ FinishRoute
    \/ WindowElapsed

SpecRoute == InitRoute /\ [][NextRoute]_vars

(***************************************************************************)
(* The rate limiter handling several requests at once.  A request is      *)
(* handled in tasks of the event loop: it is accepted, its hit is counted  *)
(* in the store, and, once the store's answer is awaited, the count it got *)
(* is compared with max.  Tasks of different requests interleave freely.   *)
(***************************************************************************)
InitConcurrent == InitWith({None}, 1..MaxMax) /\ dbUp

Accept(i) ==
    /\ inflight[i].at = "none"
    /\ \E ip \in Clients :
        inflight' = [ inflight EXCEPT ![i] = [ ip |-> ip, at |-> "arrived", totalHits |-> 0 ] ]
    /\ UNCHANGED <<NODE_ENV, maxRequests, call, out, lastLog, appVars>>

Increment(i) ==
    /\ inflight[i].at = "arrived"
    /\ hits' = increment(hits, inflight[i].ip)
    /\ inflight' = [ inflight EXCEPT ![i].at = "counted",
                                     ![i].totalHits = hits'[inflight[i].ip] ]
    /\ UNCHANGED <<NODE_ENV, maxRequests, call, out, lastLog, served, prisma, dbUp,
                   request, pc, raised, written, trace, ping>>

Decide(i) ==
    /\ inflight[i].at = "counted"
    /\ LET passed == defaultRateLimiter(inflight[i].totalHits, maxRequests) IN
        /\ served' = [ served EXCEPT ![inflight[i].ip] = Append(@, passed) ]
        /\ inflight' = [ inflight EXCEPT ![i].at = IF passed = None THEN "passed"
                                                   ELSE "blocked" ]
    /\ UNCHANGED <<NODE_ENV, maxRequests, call, out, lastLog, hits, prisma, dbUp,
                   request, pc, raised, written, trace, ping>>

NextConcurrent == \E i \in 1..MaxInFlight : Accept(i) \/ Increment(i) \/ Decide(i)

SpecConcurrent == InitConcurrent /\ [][NextConcurrent]_vars

(***************************************************************************)
(* Properties of the application (Spec)                                    *)
(***************************************************************************)
InTrace(name) == \E i \in 1..Len(trace) : trace[i] = name

\* C3: within one window, each of a client's first max requests is passed to
\* the next step and the (max+1)-th is the first one signalled as a
\* TooManyRequests error (status 429) instead; that request goes to the error
\* handler, which answers 429, and never to the routers.
C3_FirstMaxPassThenTooManyRequests ==
    /\ \A c \in Clients : \A i \in 1..Len(served[c]) :
         /\ (i <= maxRequests => served[c][i] = None)
         /\ (i = maxRequests + 1 =>
                /\ served[c][i] # None
                /\ served[c][i][1].statusCode = 429
                /\ served[c][i][1].code = "RATE_LIMITED")
    /\ (pc = "done" /\ InTrace("rateLimiter")) =>
         IF raised = None
         THEN InTrace("router")
         ELSE ~InTrace("router") /\ Len(written) = 1 /\ written[1].status = 429

C3_Witness ==
    /\ pc = "done"
    /\ maxRequests = 2
    /\ Len(served[request.ip]) = 3
    /\ served[request.ip][1] = None /\ served[request.ip][2] = None
    /\ served[request.ip][3] # None
    /\ written[1].status = 429

IsHealthRequest(r) == r.method = "GET" /\ r.path = "/health"

HealthyResponse(w) ==
    /\ Len(w) = 1
    /\ w[1].status = 200
    /\ w[1].body.success = TRUE
    /\ "data" \in DOMAIN w[1].body
    /\ w[1].body.data.status = "healthy"

\* C6: a GET /health request (here: one with a well-formed body) is answered
\* 200 with data.status "healthy" in every reachable state, whatever the
\* database state and whatever requests were served before it.
C6_HealthAlways200 ==
    (pc = "done" /\ IsHealthRequest(request) /\ request.payload = "ok")
        => HealthyResponse(written)

\* C6, amended: a GET /health request that the body parser and the rate limiter
\* pass on is answered 200 "healthy" whatever the database state and whatever
\* requests were served before it; one that they reject is answered 400 or 429
\* by the global error handler.
C6_HealthWhenPassedOn ==
    (pc = "done" /\ IsHealthRequest(request)) =>
        IF raised = None
        THEN HealthyResponse(written) /\ trace[Len(trace)] = "health.check"
        ELSE /\ trace[Len(trace)] = "errorHandler"
             /\ Len(written) = 1
             /\ written[1].status = (IF request.payload = "malformed" THEN 400 ELSE 429)

C6_Witness ==
    /\ pc = "done" /\ IsHealthRequest(request)
    /\ ~prisma /\ ~dbUp
    /\ maxRequests = 2 /\ hits[request.ip] = 2
    /\ HealthyResponse(written)

\* C7: the detailed health check answers 200 with database status "connected"
\* when the ping succeeds and 503 with "disconnected" when it fails; the body
\* is a success envelope either way and the status is 200 exactly when the
\* overall status is "healthy".
C7_DetailedFollowsPing ==
    (pc = "done" /\ InTrace("health.detailed")) =>
        /\ Len(written) = 1
        /\ written[1].body.success = TRUE
        /\ written[1].status \in {200, 503}
        /\ (written[1].status = 200) = (written[1].body.data.status = "healthy")
        /\ (ping = "ok" =>
              /\ written[1].status = 200
              /\ written[1].body.data.dependencies.database.status = "connected")
        /\ (ping = "failed" =>
              /\ written[1].status = 503
              /\ written[1].body.data.dependencies.database.status = "disconnected")

C7_Witness ==
    /\ pc = "done" /\ InTrace("health.detailed")
    /\ ping = "failed"
    /\ written[1].status = 503
    /\ written[1].body.success = TRUE

NoRouteMatches(r) ==
    ~(r.method = "GET" /\ r.path \in {"/health", "/health/detailed"})

RouteNotFound(r) ==
    [ status |-> 404,
      body   |-> [ success |-> FALSE,
                   message |-> "Route " \o r.method \o " " \o r.path \o " not found" ] ]

\* C8: a request whose method and path match no mounted route (here: one that
\* is no preflight and has a well-formed body) is answered 404 with the
\* message "Route <METHOD> <PATH> not found".
C8_UnmatchedAlways404 ==
    ( /\ pc = "done" /\ NoRouteMatches(request)
      /\ request.method # "OPTIONS" /\ request.payload = "ok" )
        => written = << RouteNotFound(request) >>

\* C8, amended: a request that matches no mounted route and that the steps
\* mounted before the routers let through is answered by the not-found step
\* with 404 and "Route <METHOD> <PATH> not found"; the not-found step is
\* reached only when no route matched, and then no other step has responded.
C8_UnmatchedPastTheGates ==
    pc = "done" =>
        /\ (InTrace("router") /\ NoRouteMatches(request)) =>
              /\ trace[Len(trace)] = "notFound"
              /\ written = << RouteNotFound(request) >>
        /\ InTrace("notFound") =>
              /\ NoRouteMatches(request)
              /\ Len(written) = 1
              /\ ~InTrace("health.check") /\ ~InTrace("health.detailed")

C8_Witness ==
    /\ pc = "done"
    /\ request.method = "POST" /\ request.path = "/health"
    /\ written = << [ status |-> 404,
                      body |-> [ success |-> FALSE,
                                 message |-> "Route POST /health not found" ] ] >>

(***************************************************************************)
(* Properties of the envelope builders (SpecEnvelope)                      *)
(***************************************************************************)

\* C9: the meta written by sendPaginated has totalPages = ceil(total/limit),
\* the least n with n*limit >= total (0 when total = 0); page, limit and total
\* are copied unchanged and the status is 200.
C9_TotalPagesIsCeiling ==
    call.op = "sendPaginated" =>
        LET p == call.pagination
            r == out.res[1]
            m == r.body.meta
        IN  /\ Len(out.res) = 1
            /\ r.status = 200
            /\ m.page = p.page /\ m.limit = p.limit /\ m.total = p.total
            /\ m.totalPages >= 0
            /\ m.totalPages * p.limit >= p.total
            /\ \A n \in 0..(m.totalPages - 1) : n * p.limit < p.total
            /\ (p.total = 0 => m.totalPages = 0)

C9_Witness ==
    /\ call.op = "sendPaginated"
    /\ call.pagination.total = 7 /\ call.pagination.limit = 3
    /\ out.res[1].body.meta.totalPages = 3

\* C10: sendSuccess writes success=true, never `errors`, `data` exactly when
\* data was supplied and `meta` exactly when meta was supplied; sendError writes
\* success=false, never `data` or `meta`, `errors` exactly when a map was supplied.
C10_EnvelopeShapes ==
    /\ call.op = "sendSuccess" =>
         LET b == out.res[1].body IN
         /\ b.success = TRUE /\ b.message = call.message
         /\ DOMAIN b \subseteq {"success", "message", "data", "meta"}
         /\ ("data" \in DOMAIN b) = (call.data # None)
         /\ ("meta" \in DOMAIN b) = (call.meta # None)
         /\ (call.data # None => b.data = call.data[1])
         /\ (call.meta # None => b.meta = call.meta[1])
    /\ call.op = "sendError" =>
         LET b == out.res[1].body IN
         /\ b.success = FALSE /\ b.message = call.message
         /\ DOMAIN b \subseteq {"success", "message", "errors"}
         /\ ("errors" \in DOMAIN b) = (call.errors # None)
         /\ (call.errors # None => b.errors = call.errors[1])

C10_Witness ==
    /\ call.op = "sendSuccess"
    /\ call.data = None /\ call.meta = None
    /\ DOMAIN out.res[1].body = {"success", "message"}

(***************************************************************************)
(* Properties of the global error handler (SpecErrorHandler)               *)
(***************************************************************************)

\* C1: an error constructed with new ValidationError(message, errors), errors
\* non-empty, is answered 422 with success=false, the error's message and an
\* `errors` key holding exactly that map.
C1_ValidationErrorCarriesFieldErrors ==
    ( /\ call.op = "errorHandler"
      /\ call.ctor = "ValidationError"
      /\ DOMAIN call.err.errors # {} )
    => out.res = << [ status |-> 422,
                      body   |-> [ success |-> FALSE,
                                   message |-> call.err.message,
                                   errors  |-> call.err.errors ] ] >>

\* an error built outside the taxonomy that is neither a database error nor a
\* body-parse error
IsGenericError(c) ==
    /\ c.op = "errorHandler"
    /\ c.ctor \in {"Error", "TypeError", "SyntaxError"}
    /\ ~(c.ctor = "SyntaxError" /\ "body" \in DOMAIN c.err)
    /\ "name" \notin DOMAIN c.err

\* C2: a generic error is answered 500; in production the message is exactly
\* "An unexpected error occurred" whatever the original message, elsewhere it
\* is the original message.
C2_GenericErrorMessage ==
    IsGenericError(call) =>
        out.res = << [ status |-> 500,
                       body   |-> [ success |-> FALSE,
                                    message |-> IF NODE_ENV = Some("production")
                                                THEN "An unexpected error occurred"
                                                ELSE call.err.message ] ] >>

C2_Witness ==
    /\ IsGenericError(call)
    /\ NODE_ENV = Some("production")
    /\ call.err.message = "secret: db password"
    /\ out.res[1].body.message = "An unexpected error occurred"

(***************************************************************************)
(* Properties of the validation step (SpecValidate)                        *)
(***************************************************************************)
\* what the request section named by the target breaks, in discovery order
Violations(c) == SchemaDetails(c.schema, c.req[c.target])
ViolatedPaths(c) == { Violations(c)[i].path : i \in 1..Len(Violations(c)) }

MessagesAt(c, path) ==
    LET AtPath(d) == d.path = path
        ds == SelectSeq(Violations(c), AtPath)
    IN  [ i \in 1..Len(ds) |-> ds[i].message ]

\* next was called exactly once, with a Validation error carrying the whole
\* field-error map, and nothing else happened
SignalsAllViolations(c, o) ==
    /\ o.res = << >>
    /\ o.thrown = None
    /\ Len(o.next) = 1
    /\ o.next[1] # None
    /\ LET e == o.next[1][1] IN
        /\ e.statusCode = 422 /\ e.code = "VALIDATION_ERROR"
        /\ DOMAIN e.errors = { JoinDot(p) : p \in ViolatedPaths(c) }
        /\ \A p \in ViolatedPaths(c) : e.errors[JoinDot(p)] = MessagesAt(c, p)

\* C4: when the request section violates the schema in several fields at once,
\* the step calls next exactly once with a Validation error whose map has one
\* key per violated dotted path holding all of that field's messages in
\* discovery order; it writes no response and never calls next without an error.
C4_AllViolationsSignalled ==
    (call.op = "validate" /\ Cardinality(ViolatedPaths(call)) >= 2)
        => SignalsAllViolations(call, out)

\* C4, for the fields whose dotted path is not the name of a property that
\* object literals inherit: there the map is built as the claim describes.
C4_OwnKeysOnly ==
    ( /\ call.op = "validate"
      /\ Violations(call) # << >>
      /\ \A p \in ViolatedPaths(call) : JoinDot(p) \notin ObjectPrototypeKeys )
        => SignalsAllViolations(call, out)

\* C5: when the request section satisfies the schema, the step replaces exactly
\* that section with the normalized output (input values of known fields,
\* defaults for absent ones, unknown fields absent), leaves the other two
\* sections unchanged and calls next exactly once without an error.
C5_NormalizedSectionReplaced ==
    (call.op = "validate" /\ Violations(call) = << >>) =>
        /\ out.res = << >>
        /\ out.thrown = None
        /\ out.next = << None >>
        /\ LET before == call.req
               after  == out.req[1]
               data   == before[call.target]
               value  == after[call.target]
           IN  /\ \A t \in Targets \ {call.target} : after[t] = before[t]
               /\ DOMAIN value \subseteq SchemaPaths(call.schema)
               /\ \A i \in 1..Len(call.schema) :
                     LET child == call.schema[i] IN
                     IF child.path \in DOMAIN data
                     THEN child.path \in DOMAIN value
                          /\ value[child.path] = data[child.path]
                     ELSE IF child.default # None
                     THEN child.path \in DOMAIN value
                          /\ value[child.path] = child.default[1]
                     ELSE child.path \notin DOMAIN value

C5_Witness ==
    /\ call.op = "validate"
    /\ call.target = "query"
    /\ Violations(call) = << >>
    /\ <<"extra">> \in DOMAIN call.req["query"]
    /\ <<"address", "zip">> \in SchemaPaths(call.schema) \ DOMAIN call.req["query"]
    /\ out.next = << None >>
    /\ DOMAIN out.req[1]["query"] = { <<"name">>, <<"address", "zip">> }
    /\ out.req[1]["query"][<<"address", "zip">>] = "00000"

(***************************************************************************)
(* Properties of the authentication steps (SpecAuth)                       *)
(***************************************************************************)
HeaderAbsent(r) == "authorization" \notin DOMAIN r.headers
HeaderNotBearer(r) ==
    /\ ~HeaderAbsent(r)
    /\ \/ Len(r.headers.authorization) < 7
       \/ SubSeq(r.headers.authorization, 1, 7) # "Bearer "
HeaderEmptyToken(r) == ~HeaderAbsent(r) /\ r.headers.authorization = "Bearer "

SignalsUnauthorized(o) ==
    /\ Len(o.next) = 1
    /\ o.next[1] # None
    /\ o.next[1][1].statusCode = 401
    /\ o.next[1][1].code = "UNAUTHORIZED"
    /\ o.res = << >>
    /\ o.thrown = None

\* C11: authenticate hands an Unauthorized error (401) to next, and does not
\* let the chain proceed, for every request whose Authorization header is
\* absent, does not start with "Bearer ", or carries an empty token after the
\* prefix; in each case next is called exactly once.
C11_AuthenticateRejects ==
    (/\ call.op = "authenticate"
     /\ HeaderAbsent(call.req) \/ HeaderNotBearer(call.req) \/ HeaderEmptyToken(call.req))
    => SignalsUnauthorized(out)

C11_Witness ==
    /\ call.op = "authenticate"
    /\ HeaderEmptyToken(call.req)
    /\ SignalsUnauthorized(out)
    /\ out.next[1][1].message = "Invalid token"

C13_OptionalAuthNeverFails ==
    call.op = "optionalAuth" =>
        /\ out.next = << None >>
        /\ out.res = << >>
        /\ out.thrown = None
        /\ out.req = Some(call.req)
        /\ ("user" \notin DOMAIN call.req => "user" \notin DOMAIN out.req[1])

C13_Witness ==
    /\ call.op = "optionalAuth"
    /\ ~HeaderAbsent(call.req)
    /\ call.req.headers.authorization = "Bearer abc"
    /\ "user" \notin DOMAIN call.req
    /\ out.next = << None >>
    /\ "user" \notin DOMAIN out.req[1]

(***************************************************************************)
(* Properties of the error taxonomy (SpecErrors)                           *)
(***************************************************************************)
\* the table of the eight kinds: status, default code, default message
TaxonomyTable ==
    [ BadRequestError      |-> [ status |-> 400, code |-> "BAD_REQUEST",
                                 message |-> "Bad Request" ],
      UnauthorizedError    |-> [ status |-> 401, code |-> "UNAUTHORIZED",
                                 message |-> "Unauthorized" ],
      ForbiddenError       |-> [ status |-> 403, code |-> "FORBIDDEN",
                                 message |-> "Forbidden" ],
      NotFoundError        |-> [ status |-> 404, code |-> "NOT_FOUND",
                                 message |-> "Not Found" ],
      ConflictError        |-> [ status |-> 409, code |-> "CONFLICT",
                                 message |-> "Conflict" ],
      ValidationError      |-> [ status |-> 422, code |-> "VALIDATION_ERROR",
                                 message |-> "Validation Error" ],
      TooManyRequestsError |-> [ status |-> 429, code |-> "RATE_LIMITED",
                                 message |-> "Too Many Requests" ],
      InternalServerError  |-> [ status |-> 500, code |-> "INTERNAL_ERROR",
                                 message |-> "Internal Server Error" ] ]

\* C14: for each of the eight kinds and every overriding message and code
\* given to its constructor, the error has the status of the table, the
\* table's default message and code when none is given (the given ones
\* otherwise), and isOperational is true for every kind but InternalServer,
\* for which it is false.
C14_TaxonomyTable ==
    call.op = "new" =>
        LET row == TaxonomyTable[call.kind]
            e   == out.ret
        IN  /\ e.statusCode = row.status
            /\ e.message = IF call.message = None THEN row.message ELSE call.message[1]
            /\ e.code = IF "code" \in DOMAIN call /\ call.code # None
                        THEN call.code[1] ELSE row.code
            /\ e.isOperational = (call.kind # "InternalServerError")

C14_Witness ==
    /\ call.op = "new"
    /\ call.kind = "InternalServerError"
    /\ call.message = None /\ call.code = Some("E_CUSTOM")
    /\ out.ret.statusCode = 500
    /\ out.ret.message = "Internal Server Error"
    /\ out.ret.code = "E_CUSTOM"
    /\ out.ret.isOperational = FALSE

(***************************************************************************)
(* Properties of the global error handler (SpecErrorHandler), continued    *)
(***************************************************************************)
IsTaxonomyMember(c) == c.ctor \in TaxonomySubclasses \cup {"AppError"}
\* the name the error answers to: the assigned one, else its class's
NameGiven(c) == IF "name" \in DOMAIN c.err THEN c.err.name ELSE c.ctor
IsBodyParseError(c) == c.ctor = "SyntaxError" /\ "body" \in DOMAIN c.err

\* C15: the error handler answers by the first rule that matches, in this
\* order: taxonomy member (its own status and message), database
\* known-request error (400 "Database operation failed"), database validation
\* error (400 "Invalid data provided"), body-parse syntax error (400 "Invalid
\* JSON payload"), anything else (500).  A taxonomy error named like a
\* database error keeps its own status, and the three 400 answers do not
\* depend on the environment.
C15_FirstMatchingRule ==
    call.op = "errorHandler" =>
        /\ Len(out.res) = 1
        /\ out.res[1].body.success = FALSE
        /\ IF IsTaxonomyMember(call) THEN
               /\ out.res[1].status = call.err.statusCode
               /\ out.res[1].body.message = call.err.message
           ELSE IF NameGiven(call) = "PrismaClientKnownRequestError" THEN
               out.res[1] = [ status |-> 400,
                              body |-> [ success |-> FALSE,
                                         message |-> "Database operation failed" ] ]
           ELSE IF NameGiven(call) = "PrismaClientValidationError" THEN
               out.res[1] = [ status |-> 400,
                              body |-> [ success |-> FALSE,
                                         message |-> "Invalid data provided" ] ]
           ELSE IF IsBodyParseError(call) THEN
               out.res[1] = [ status |-> 400,
                              body |-> [ success |-> FALSE,
                                         message |-> "Invalid JSON payload" ] ]
           ELSE out.res[1].status = 500

C15_Witness ==
    /\ call.op = "errorHandler"
    /\ call.ctor = "NotFoundError"
    /\ "name" \in DOMAIN call.err
    /\ call.err.name = "PrismaClientKnownRequestError"
    /\ NODE_ENV = Some("production")
    /\ out.res[1].status = 404
    /\ out.res[1].body.message = call.err.message

\* an error that is not operational: a taxonomy error built with
\* isOperational = false, or an error from outside the taxonomy
IsNonOperational(c) ==
    /\ c.op = "errorHandler"
    /\ IsTaxonomyMember(c) => c.err.isOperational = FALSE

\* C16: in production the answer to a non-operational error (an
\* InternalServerError instance, an AppError built with isOperational = false,
\* an error from outside the taxonomy) never carries the message the error
\* was given.
C16_NonOperationalHiddenInProduction ==
    ( /\ IsNonOperational(call)
      /\ NODE_ENV = Some("production")
      /\ call.err.message \in Messages )
    => out.res[1].body.message # call.err.message

(***************************************************************************)
(* Properties of a request through the pipeline (SpecRoute)                *)
(***************************************************************************)
\* the steps that only the global error handler may follow
ErrorAnswered ==
    /\ pc = "errorHandler"
    /\ written = << >>
    /\ trace' = Append(trace, "errorHandler")
    /\ written' = << errorHandler(raised[1], config(NODE_ENV)) >>
    /\ raised' = raised

OneResponse ==
    /\ Len(written) <= 1
    /\ pc = "done" => Len(written) = 1
    /\ raised # None =>
         /\ pc \in {"errorHandler", "done"}
         /\ pc = "errorHandler" => written = << >>
         /\ pc = "done" =>
              /\ trace[Len(trace)] = "errorHandler"
              /\ written = << errorHandler(raised[1], config(NODE_ENV)) >>

\* C17: for every request through the rate-limit gate, the gates of its
\* route, the controller, the not-found step and the global error handler,
\* exactly one response is written; once a step has signalled an error no
\* later gate and no controller runs, and the response to that error is
\* written by the global error handler and by no other step.
C17_OneResponseErrorsToHandler ==
    /\ []OneResponse
    /\ [][ raised # None =>
             \/ ErrorAnswered
             \/ pc = "done" /\ pc' = "idle"
             \/ trace' = trace /\ written' = written /\ pc' = pc ]_vars

C17_Witness ==
    /\ pc = "done"
    /\ call.op = "route"
    /\ trace = << "rateLimiter", "router", "optionalAuth", "authorize", "errorHandler" >>
    /\ Len(call.stack) = 4
    /\ raised # None
    /\ written = << [ status |-> 401,
                      body |-> [ success |-> FALSE,
                                 message |-> "User not authenticated" ] ] >>

ChainAuthenticateAuthorize(stack) ==
    \E i, j \in 1..Len(stack) :
        i < j /\ stack[i].kind = "authenticate" /\ stack[j].kind = "authorize"

\* C20: authenticate never attaches an identity, so in a route chain where
\* authenticate is followed by authorize(...roles) the controller is never
\* reached: whatever the token and the allowed roles, a request that
\* authenticate passes on is rejected by authorize with Unauthorized (401).
C20_ProtectedRouteNeverReached ==
    (call.op = "route" /\ ChainAuthenticateAuthorize(call.stack)) =>
        /\ ~InTrace("controller")
        /\ "user" \notin DOMAIN request
        /\ InTrace("authorize") =>
             /\ raised # None
             /\ raised[1].statusCode = 401
             /\ raised[1].message = "User not authenticated"
             /\ pc = "done" => written[1].status = 401

C20_Witness ==
    /\ pc = "done"
    /\ call.op = "route"
    /\ ChainAuthenticateAuthorize(call.stack)
    /\ call.stack[2].kind = "authorize"
    /\ call.stack[2].allowedRoles = <<"admin", "user">>
    /\ "authorization" \in DOMAIN request.headers
    /\ request.headers.authorization = "Bearer abc"
    /\ InTrace("authenticate") /\ InTrace("authorize") /\ ~InTrace("controller")
    /\ written[1].status = 401

(***************************************************************************)
(* Properties of the rate limiter under concurrent requests                *)
(* (SpecConcurrent)                                                        *)
(***************************************************************************)
Counted(c) ==
    { i \in 1..MaxInFlight :
        inflight[i].ip = c /\ inflight[i].at \in {"counted", "passed", "blocked"} }
PassedOn(c) == { i \in 1..MaxInFlight : inflight[i].ip = c /\ inflight[i].at = "passed" }

\* C18: when requests of one client are handled concurrently within a
\* window, the counter updates never interleave: each counted request got a
\* count of its own, the store holds exactly the number of requests counted
\* (no increment is lost), and at most max of them are passed on.
C18_CounterUpdatesAtomic ==
    \A c \in Clients :
        /\ hits[c] = Cardinality(Counted(c))
        /\ \A i, j \in Counted(c) : i # j => inflight[i].totalHits # inflight[j].totalHits
        /\ { inflight[i].totalHits : i \in Counted(c) } = 1..hits[c]
        /\ Cardinality(PassedOn(c)) <= maxRequests

C18_Witness ==
    \E c \in Clients :
        /\ maxRequests = 1
        /\ Cardinality(Counted(c)) = 3
        /\ Cardinality(PassedOn(c)) = 1
        /\ \E i \in Counted(c) : inflight[i].at = "blocked"
        /\ \E i \in Counted(c) : inflight[i].at = "counted" /\ inflight[i].totalHits = 2

(***************************************************************************)
(* Properties of the rate-limit window (Spec)                              *)
(***************************************************************************)
CountPerClientWindow ==
    \A c \in Clients :
        /\ hits[c] = Len(served[c])
        /\ \A i \in 1..Len(served[c]) : (served[c][i] = None) <=> (i <= maxRequests)

\* C19: the count is kept per client and per window.  A request changes the
\* count of its own client only and is allowed by that count alone; when the
\* window of a client has elapsed its count starts again from zero, so its
\* next request is passed on even if the window before was exhausted.
C19_PerClientPerWindow ==
    /\ []CountPerClientWindow
    /\ [][ \A c \in Clients : hits'[c] # hits[c] =>
             \/ hits'[c] = 0 /\ served'[c] = << >>
             \/ /\ pc = "rateLimiter" /\ request.ip = c
                /\ hits'[c] = hits[c] + 1
                /\ (raised' = None) <=> (hits[c] < maxRequests)
                /\ hits[c] = 0 => pc' = "router"
                /\ \A d \in Clients \ {c} :
                     hits'[d] = hits[d] /\ served'[d] = served[d] ]_vars

C19_Witness ==
    /\ pc = "errorHandler"
    /\ raised # None
    /\ "statusCode" \in DOMAIN raised[1]
    /\ raised[1].statusCode = 429
    /\ hits[request.ip] = 0
    /\ \E d \in Clients \ {request.ip} : hits[d] = maxRequests + 1

(***************************************************************************)
(* Properties of the health service (SpecHealth)                           *)
(***************************************************************************)
Disconnected(statuses) == { i \in 1..Len(statuses) : statuses[i] = "disconnected" }

\* C21: the overall status of getDetailedHealth is "healthy" or "unhealthy",
\* never "degraded": with the database as the only dependency it is
\* "unhealthy" exactly when the database is disconnected and "healthy"
\* exactly when it is connected.  For a non-empty list of dependencies
\* determineOverallStatus gives "unhealthy" when all are disconnected,
\* "degraded" when some but not all are, "healthy" when none is.
C21_OverallStatus ==
    /\ call.op = "getDetailedHealth" =>
         /\ out.ret.status \in {"healthy", "unhealthy"}
         /\ (out.ret.status = "unhealthy")
              = (out.ret.dependencies.database.status = "disconnected")
         /\ (out.ret.status = "healthy")
              = (out.ret.dependencies.database.status = "connected")
         /\ (out.ret.dependencies.database.status = "connected")
              = (call.handle /\ call.queryOk)
    /\ (call.op = "determineOverallStatus" /\ Len(call.statuses) > 0) =>
         LET d == Cardinality(Disconnected(call.statuses))
             n == Len(call.statuses)
         IN  /\ d = n => out.ret = "unhealthy"
             /\ (0 < d /\ d < n) => out.ret = "degraded"
             /\ d = 0 => out.ret = "healthy"

C21_Witness ==
    /\ call.op = "getDetailedHealth"
    /\ call.handle /\ ~call.queryOk
    /\ out.ret.status = "unhealthy"
    /\ out.ret.dependencies.database.status = "disconnected"

(***************************************************************************)
(* Properties of the detailed health check in the application (Spec)       *)
(***************************************************************************)
\* C22: the detailed health check never propagates an error.  When the
\* database handle was never initialised or the ping fails, the database is
\* reported "disconnected" with no latency field and the request is answered
\* 503 by the controller, the error handler never running; the latency field
\* is present exactly when the status is "connected".
C22_DetailedNeverPropagates ==
    (pc = "done" /\ InTrace("health.detailed")) =>
        LET db == written[1].body.data.dependencies.database IN
        /\ raised = None
        /\ ~InTrace("errorHandler")
        /\ trace[Len(trace)] = "health.detailed"
        /\ Len(written) = 1
        /\ ping \in {"notAttempted", "failed"} =>
             /\ db = [ status |-> "disconnected" ]
             /\ written[1].status = 503
        /\ ("latency" \in DOMAIN db) = (db.status = "connected")
        /\ (db.status = "connected") = (ping = "ok")

C22_Witness ==
    /\ pc = "done" /\ InTrace("health.detailed")
    /\ ~prisma
    /\ ping = "notAttempted"
    /\ written[1].status = 503
    /\ written[1].body.data.dependencies.database = [ status |-> "disconnected" ]

(***************************************************************************)
(* Properties of the database module and the configuration (SpecDatabase)  *)
(***************************************************************************)
\* the calls made before the one under way
CallsBefore == SubSeq(trace, 1, Len(trace) - 1)
InitializedBefore ==
    \E i \in 1..Len(CallsBefore) : CallsBefore[i] = "initializeDatabase"

\* C23: over any sequence of initializeDatabase, disconnectDatabase and
\* getDatabase calls, getDatabase throws "Database not initialized" exactly
\* when initializeDatabase was never called; once it was called getDatabase
\* returns a handle, even if the connect failed and the call threw, and even
\* after disconnectDatabase; disconnectDatabase before any initialisation
\* completes without error.
C23_HandleAfterInitialize ==
    /\ call.op = "getDatabase" =>
         IF InitializedBefore
         THEN out.thrown = None /\ out.ret # None
         ELSE /\ out.thrown # None
              /\ out.thrown[1].message
                   = "Database not initialized. Call initializeDatabase first."
    /\ (call.op = "initializeDatabase" /\ ~call.connectOk) => out.thrown # None
    /\ (call.op = "disconnectDatabase" /\ ~InitializedBefore) => out.thrown = None

C23_Witness ==
    /\ call.op = "getDatabase"
    /\ trace = << "initializeDatabase", "getDatabase" >>
    /\ lastLog = Some([ level |-> "error", message |-> "Failed to connect to database:" ])
    /\ out.thrown = None /\ out.ret # None

\* C24: the environment flags of the configuration agree with its
\* environment name for every value of NODE_ENV, unset included:
\* isDevelopment exactly when env is "development", isProduction exactly when
\* it is "production", isTest exactly when it is "test"; with NODE_ENV unset
\* the configuration is development.
C24_FlagsAgreeWithEnv ==
    LET cfg == config(NODE_ENV) IN
    /\ cfg.isDevelopment = (cfg.env = "development")
    /\ cfg.isProduction = (cfg.env = "production")
    /\ cfg.isTest = (cfg.env = "test")
    /\ NODE_ENV = None => cfg.env = "development" /\ cfg.isDevelopment

(***************************************************************************)
(* Properties of the body parser's place in the application (Spec)         *)
(***************************************************************************)
MalformedInFlight ==
    /\ pc \notin {"idle", "cors"}
    /\ request.method # "OPTIONS"
    /\ request.payload = "malformed"

MalformedAnswered400 ==
    MalformedInFlight =>
        /\ ~InTrace("rateLimiter")
        /\ pc \in {"bodyParser", "errorHandler", "done"}
        /\ pc = "done" =>
             written = << [ status |-> 400,
                            body |-> [ success |-> FALSE,
                                       message |-> "Invalid JSON payload" ] ] >>

\* C25: body parsing comes before the default rate limiter, so a request
\* whose JSON body does not parse goes straight to the global error handler
\* and is answered 400 "Invalid JSON payload" without passing the rate
\* limiter: it is not counted in the client's window, and it is answered 400
\* rather than 429 even when the window is exhausted.
C25_MalformedBodySkipsLimiter ==
    /\ []MalformedAnswered400
    /\ [][ MalformedInFlight =>
             \A c \in Clients : hits'[c] = hits[c] \/ hits'[c] = 0 ]_vars

C25_Witness ==
    /\ pc = "done"
    /\ request.payload = "malformed" /\ request.method = "POST"
    /\ hits[request.ip] = maxRequests + 1
    /\ Len(served[request.ip]) = maxRequests + 1
    /\ served[request.ip][maxRequests + 1] # None
    /\ written[1].status = 400

====
